---- MODULE Spec2Model ----
(***************************************************************************)
(* Equipment-Design-Chemical-Processes: the vertical vessel weight         *)
(* estimator, the shell-and-tube heat exchanger helpers and the            *)
(* gas-liquid separator sizer, as one state machine.  A behaviour is one   *)
(* call of one function: Init binds the arguments, the actions execute the *)
(* function's statements, and the call ends in pc = "done" (a value was    *)
(* returned, in ret) or pc = "raised" (an exception left the function).    *)
(*                                                                         *)
(* Numbers.  The code computes in IEEE doubles; the model computes in      *)
(* decimal fixed point on TLC's 32-bit integers.  Every quantity carries   *)
(* an explicit scale, named where it is introduced.  Products are formed   *)
(* with MulDiv, which is exact (it never overflows on the intermediate     *)
(* product), so the only rounding is the final floor to the scale.         *)
(***************************************************************************)
EXTENDS Integers, Sequences, FiniteSets, TLC

VARIABLES
    call,   \* the function being executed
    pc,     \* the position in that function
    args,   \* its arguments, by parameter name
    loc,    \* its local namespace: the locals assigned so far, by name
    ret,    \* the returned value(s) or the raised exception
    stdout  \* the warnings printed so far

vars == <<call, pc, args, loc, ret, stdout>>

(***************************************************************************)
(* Fixed-point kernel                                                      *)
(***************************************************************************)

Abs(x) == IF x < 0 THEN -x ELSE x

Max(a, b) == IF a >= b THEN a ELSE b

Min(a, b) == IF a <= b THEN a ELSE b

\* The digit base of the long multiplication by divisor c: the largest power
\* of two B with (2B - 1) * c < 2^31, so that no intermediate overflows.
DigitBase(c) ==
    LET k == CHOOSE j \in 1..15 :
                 /\ (2^(j + 1) - 1) <= 2147483647 \div c
                 /\ (j = 15 \/ (2^(j + 2) - 1) > 2147483647 \div c)
    IN  2^k

\* <<quotient, remainder>> of a*b by c for a, b >= 0 and 0 < c < 7*10^8, by
\* long multiplication over the base-B digits of b.
RECURSIVE MulDivQR(_, _, _, _)
MulDivQR(a, b, c, B) ==
    IF b = 0 THEN <<0, 0>>
    ELSE CHOOSE qr \in
             {LET e == b % B
                  t == B * h[2] + e * (a % c)
              IN  <<B * h[1] + e * (a \div c) + t \div c, t % c>> :
                  h \in {MulDivQR(a, n, c, B) : n \in {b \div B}}} : TRUE

\* floor(a*b/c) for the numbers a, b >= 0 and c > 0.
MulDivOf(a, b, c) ==
    IF a = 0 \/ b = 0 \/ c = 0 THEN 0
    ELSE IF b <= 2147483647 \div a THEN (a * b) \div c
    ELSE CHOOSE q \in {MulDivQR(Max(a, b), Min(a, b), c, B)[1] :
                           B \in {DigitBase(c)}} : TRUE

\* floor(a*b/c) for a, b >= 0, c > 0: exact, whatever the size of a*b.  The
\* three operands are evaluated once, to the numbers v.
MulDiv(a, b, c) ==
    CHOOSE q \in {MulDivOf(v[1], v[2], v[3]) : v \in {<<a, b, c>>}} : TRUE

\* a*b/c rounded toward zero, a of either sign.
SMulDiv(a, b, c) == IF a < 0 THEN -MulDiv(-a, b, c) ELSE MulDiv(a, b, c)

\* The largest k with 2^k <= x, 1 <= x < 2^31.
Log2Floor(x) == CHOOSE k \in 0..30 : 2^k <= x /\ (k = 30 \/ x < 2^(k + 1))

\* The scale of the logarithm and exponential kernel: 10^-8.
Fine == 10^8

\* 1/n + z2/(n+2) + z2^2/(n+4) + ... to the term in 1/17, z2 and the result
\* scaled by Fine (Horner form).
RECURSIVE AtanhHorner(_, _)
AtanhHorner(z2, n) ==
    IF n >= 17 THEN Fine \div 17
    ELSE Fine \div n + MulDiv(z2, AtanhHorner(z2, n + 2), Fine)

\* atanh(z) = z + z^3/3 + z^5/5 + ... for 0 <= z <= 1/3, z and the result
\* scaled by Fine (terms to z^17).
AtanhOf(z) == MulDiv(z, AtanhHorner(MulDiv(z, z, Fine), 1), Fine)

AtanhSeries(z) == CHOOSE a \in {AtanhOf(v) : v \in {z}} : TRUE

\* ln 2 = 2 atanh(1/3), scaled by Fine.
Ln2 == 2 * AtanhSeries(Fine \div 3)

\* ln(x) scaled by Fine, for an integer 1 <= x < 2^30:
\* x = 2^k * m with 1 <= m < 2, ln m = 2 atanh((m-1)/(m+1)).
LnOf(x) ==
    LET k == Log2Floor(x)
        m == MulDiv(x, Fine, 2^k)
        z == MulDiv(m - Fine, Fine, m + Fine)
    IN  k * Ln2 + 2 * AtanhSeries(z)

LnInt(x) == CHOOSE l \in {LnOf(v) : v \in {x}} : TRUE

\* ln(num/den) scaled by Fine.
FxLn(num, den) == LnInt(num) - LnInt(den)

\* exp(r) scaled by Fine for 0 <= r < ln 2 (r scaled by Fine): the Taylor
\* series to r^12/12! in Horner form.
RECURSIVE ExpHorner(_, _)
ExpHorner(r, n) ==
    IF n > 12 THEN Fine
    ELSE Fine + MulDiv(r, ExpHorner(r, n + 1), Fine) \div n

ExpSeries(r) == ExpHorner(r, 1)

\* exp(x) scaled by out, x of either sign scaled by Fine:
\* x = k ln 2 + r with 0 <= r < ln 2, exp(x) = 2^k exp(r).
ExpOf(x, out) ==
    LET k == x \div Ln2
        r == x - k * Ln2
    IN  IF k >= 0 THEN MulDiv(ExpSeries(r), out * 2^k, Fine)
        ELSE MulDiv(ExpSeries(r), out, Fine) \div 2^(-k)

FxExp(x, out) == CHOOSE e \in {ExpOf(v[1], v[2]) : v \in {<<x, out>>}} : TRUE

\* (num/den)^(p/q) scaled by out, computed as exp((p/q) ln(num/den)), which is
\* how a floating-point pow with a fractional exponent behaves: the result
\* is the power to within the kernel's rounding, never exactly.
FxPow(num, den, p, q, out) ==
    LET l == FxLn(num, den)
        e == SMulDiv(l, Abs(p), q)
    IN  FxExp(IF p < 0 THEN -e ELSE e, out)

(***************************************************************************)
(* Python's local namespace, return and raise                              *)
(***************************************************************************)

\* No local is bound when a call starts.
NoLocals == [n \in {} |-> 0]

\* name = value
Assign(l, name, value) == (name :> value) @@ l

IsBound(l, name) == name \in DOMAIN l

NoResult == [kind |-> "none"]

Returned(v) == [kind |-> "value", value |-> v]

Raised(type, what) == [kind |-> "exception", type |-> type, what |-> what]

(***************************************************************************)
(* src/Vessels-and-Towers/weightvessels.py                                 *)
(*                                                                         *)
(* Scales: lowest_pressure in 0.1 kPa, highest_temp in 0.01 K, diameter    *)
(* and tangent_tangent_length in mm, material_density in kg/m3;            *)
(* design_pressure in 0.001 psig, design_temp in 0.01 F, E_modulus and     *)
(* allowable_stress in psi, every thickness and diameter in 10^-7 in,      *)
(* error in 10^-6, weight in 0.001 kg.                                     *)
(***************************************************************************)

\* 1 in, in thickness units.
Inch == 10^7

\* kg_m3_to_lb_in3 = 0.000036127298147753, scaled by 10^12.
kg_m3_to_lb_in3 == 36127298

\* m_to_inch = 39.3701, scaled by 10^4.
m_to_inch == 393701

\* kPa_to_psig = 0.145038, scaled by 10^6.
kPa_to_psig == 145038

\* kg_to_lb = 2.20462, scaled by 10^5.
kg_to_lb == 220462

\* np.pi, scaled by 10^8.
Pi == 314159265

\* x * m_to_inch for x in mm, in 10^-7 in.
ToInch(mm) == MulDiv(mm, m_to_inch, 1)

\* lowest_pressure * kPa_to_psig, in 0.001 psig.
ToPsig(p) == MulDiv(p, kPa_to_psig, 10000)

\* np.exp(0.60608 + 0.91615*np.log(x) + 0.0015655*np.log(x)**2) for
\* x = lowest_pressure * kPa_to_psig, in 0.001 psig.
PressureCorrelation(p) ==
    LET l == FxLn(ToPsig(p), 1000)
    IN  FxExp(60608000 + SMulDiv(l, 91615, 100000)
                  + MulDiv(MulDiv(Abs(l), 15655, 10000000), Abs(l), Fine),
              1000)

\* The branch of the design-pressure conditional that lowest_pressure takes.
DesignPressureRegime(p) ==
    IF p <= 345 THEN "fixed"
    ELSE IF p <= 68950 THEN "correlation"
    ELSE IF p >= 68950 THEN "factor"
    ELSE "none"

\* The wall-thickness conditional with both comparisons strict.
StrictThicknessProcedure(p) ==
    IF p > 1010 THEN "high"
    ELSE IF p < 1010 THEN "low"
    ELSE "none"

\* The branch of the wall-thickness conditional that lowest_pressure takes.
ThicknessProcedure(p) ==
    IF p >= 1010 THEN "high"
    ELSE IF p <= 1010 THEN "low"
    ELSE "none"

\* The modulus of elasticity of the design temperature's band.
ModulusOf(design_temp) ==
    IF design_temp < 20000 THEN 30200000
    ELSE IF design_temp < 40000 THEN 29500000
    ELSE IF design_temp < 65000 THEN 28300000
    ELSE 26000000

\* The allowable stress of the design temperature's band; 0 stands for the
\* else branch, which assigns nothing.
StressOf(design_temp) ==
    IF design_temp <= 75000 THEN 15000
    ELSE IF design_temp <= 80000 THEN 14750
    ELSE IF design_temp <= 85000 THEN 14200
    ELSE IF design_temp <= 90000 THEN 13100
    ELSE 0

TooHotWarning ==
    "Warning: Distillation design temperature is too high for wall thickness calculation"

ThinWallWarning == "Warning: The wall thickness does not pass the methods."

\* (tangent_tangent_length*m_to_inch) / ((diameter*m_to_inch) + tE1),
\* scaled by 10^5.
LengthRatio(a, tE1) ==
    MulDiv(ToInch(a.tangent_tangent_length), 10^5, ToInch(a.diameter) + tE1)

\* 0.22*((D + tE1) + 18) * L**2 / (allowable_stress * (D + tE1)**2), formed as
\* (0.22*((D + tE1) + 18) / allowable_stress) * (L / (D + tE1))**2.
HighPressureStep(a, l, tE1) ==
    LET y   == ToInch(a.diameter) + tE1
        rho == LengthRatio(a, tE1)
        x   == MulDiv(MulDiv(y + 18 * Inch, 22, 100), rho, l.allowable_stress * 100)
    IN  MulDiv(x, rho, 10^8)

\* 1.3*(D + tE1) * ((design_pressure*L) / (E_modulus*(D + tE1)))**0.4
LowPressureStep(a, l, tE1) ==
    LET y   == ToInch(a.diameter) + tE1
        rho == LengthRatio(a, tE1)
        lnq == FxLn(MulDiv(l.design_pressure, rho, 1000), 10^5) - LnInt(l.E_modulus)
        pw  == FxExp(SMulDiv(lnq, 4, 10), Fine)
    IN  MulDiv(MulDiv(y, 13, 10), pw, Fine)

\* (tE1 - tE) / tE1, in 10^-6.
RelativeError(tE1, tE) == SMulDiv(tE1 - tE, 10^6, tE1)

\* abs(error) > 0.001
NotConverged(error) == Abs(error) > 1000

\* (design_pressure * D) / (2*allowable_stress - 1.2*design_pressure)
PressureThickness(a, l) ==
    MulDiv(l.design_pressure, ToInch(a.diameter),
           2000 * l.allowable_stress - MulDiv(l.design_pressure, 12, 10))

\* L * (0.18*D - 2.2) * 10**(-5) - 0.19
CorrectionThickness(a) ==
    LET k == MulDiv(ToInch(a.diameter), 18, 100) - 22 * (Inch \div 10)
    IN  SMulDiv(k, ToInch(a.tangent_tangent_length) \div 10^5, Inch) - 19 * (Inch \div 100)

\* The minimum wall thickness taken as 0.125 in.
EighthInchMinimum(t) == IF t < Inch \div 8 THEN Inch \div 8 ELSE t

\* The minimum wall thickness: 0.25 in.
MinimumThickness(t) == IF t < Inch \div 4 THEN Inch \div 4 ELSE t

\* np.pi * t_total * (material_density*kg_m3_to_lb_in3) * (D + t_total)
\*   * (L + 0.8*D) / kg_to_lb
WeightOf(a, t) ==
    LET D   == ToInch(a.diameter)
        L   == ToInch(a.tangent_tangent_length)
        rho == MulDiv(a.material_density, kg_m3_to_lb_in3, 10^4)
        w1  == MulDiv(t, Pi, 10^8)
        w2  == MulDiv(w1, rho, 10^8)
        w3  == MulDiv(w2, D + t, Inch)
        w4  == MulDiv(w3, L \div 1000 + MulDiv(D, 8, 10000), 10^8)
    IN  MulDiv(w4, 10^5, kg_to_lb)

\* The arguments the vessel calls are made with.
VesselArgs ==
    [lowest_pressure : {200, 345, 346, 1009, 1010, 1011, 68950, 68951, 80000},
     highest_temp : {30000, 40000, 50000, 65000, 68000, 71000, 72759, 72760, 80000},
     diameter : {20, 500, 1500},
     tangent_tangent_length : {1000, 5000},
     material_density : {7850}]

Goto(label) == pc' = label /\ UNCHANGED <<call, args>>

\* return v
Return(v) ==
    /\ ret' = Returned(v)
    /\ pc' = "done"
    /\ UNCHANGED <<call, args, loc, stdout>>

\* An exception leaves the function: nothing is returned.
Raise(type, what) ==
    /\ ret' = Raised(type, what)
    /\ pc' = "raised"
    /\ UNCHANGED <<call, args, loc, stdout>>

\* Lines 39-45: the design pressure of the regime of lowest_pressure.
SelectDesignPressure ==
    /\ call = "vertical_vessels_weight" /\ pc = "design_pressure"
    /\ LET p == args.lowest_pressure
           regime == DesignPressureRegime(p)
       IN  loc' = CASE regime = "fixed" -> Assign(loc, "design_pressure", 10000)
                    [] regime = "correlation" ->
                           Assign(loc, "design_pressure", PressureCorrelation(p))
                    [] regime = "factor" ->
                           Assign(loc, "design_pressure", MulDiv(ToPsig(p), 11, 10))
                    [] OTHER -> loc
    /\ Goto("design_temp")
    /\ UNCHANGED <<ret, stdout>>

\* Line 49: Kelvin to Fahrenheit, plus 50.
ComputeDesignTemp ==
    /\ call = "vertical_vessels_weight" /\ pc = "design_temp"
    /\ loc' = Assign(loc, "design_temp",
                     ((args.highest_temp - 27315) * 9) \div 5 + 3200 + 5000)
    /\ Goto("E_modulus")
    /\ UNCHANGED <<ret, stdout>>

\* Lines 52-59.
SelectModulus ==
    /\ call = "vertical_vessels_weight" /\ pc = "E_modulus"
    /\ loc' = Assign(loc, "E_modulus", ModulusOf(loc.design_temp))
    /\ Goto("allowable_stress")
    /\ UNCHANGED <<ret, stdout>>

\* Lines 62-71: above 900 F the else branch prints a warning and assigns
\* nothing, so allowable_stress stays unbound.
SelectAllowableStress ==
    /\ call = "vertical_vessels_weight" /\ pc = "allowable_stress"
    /\ IF StressOf(loc.design_temp) # 0
       THEN /\ loc' = Assign(loc, "allowable_stress", StressOf(loc.design_temp))
            /\ stdout' = stdout
       ELSE /\ loc' = loc
            /\ stdout' = Append(stdout, TooHotWarning)
    /\ Goto("guess")
    /\ UNCHANGED ret

\* Lines 74-75.
InitialGuess ==
    /\ call = "vertical_vessels_weight" /\ pc = "guess"
    /\ loc' = Assign(Assign(loc, "tE1", Inch \div 4), "error", 10^6)
    /\ Goto("thickness")
    /\ UNCHANGED <<ret, stdout>>

\* Lines 79-82: one pass of the loop of the branch lowest_pressure >= 101.
\* Reading the unbound allowable_stress raises UnboundLocalError.
HighPressureIterate ==
    /\ call = "vertical_vessels_weight" /\ pc = "thickness"
    /\ ThicknessProcedure(args.lowest_pressure) = "high"
    /\ NotConverged(loc.error)
    /\ IF ~IsBound(loc, "allowable_stress")
       THEN Raise("UnboundLocalError", "allowable_stress")
       ELSE LET tE == HighPressureStep(args, loc, loc.tE1)
            IN  IF loc.tE1 = 0
                THEN Raise("ZeroDivisionError", "error")
                ELSE /\ loc' = Assign(Assign(Assign(loc, "tE", tE),
                                             "error", RelativeError(loc.tE1, tE)),
                                      "tE1", tE)
                     /\ UNCHANGED <<call, pc, args, ret, stdout>>

\* Lines 83-84, once the loop has ended.
HighPressureFinish ==
    /\ call = "vertical_vessels_weight" /\ pc = "thickness"
    /\ ThicknessProcedure(args.lowest_pressure) = "high"
    /\ ~NotConverged(loc.error)
    /\ IF ~IsBound(loc, "design_pressure")
       THEN Raise("UnboundLocalError", "design_pressure")
       ELSE LET tp == PressureThickness(args, loc)
            IN  /\ loc' = Assign(Assign(loc, "tp", tp),
                                 "t_total", (tp + loc.tE + tp) \div 2)
                /\ Goto("minimum")
                /\ UNCHANGED <<ret, stdout>>

\* Lines 86-89: one pass of the loop of the branch lowest_pressure <= 101.
LowPressureIterate ==
    /\ call = "vertical_vessels_weight" /\ pc = "thickness"
    /\ ThicknessProcedure(args.lowest_pressure) = "low"
    /\ NotConverged(loc.error)
    /\ IF ~IsBound(loc, "design_pressure")
       THEN Raise("UnboundLocalError", "design_pressure")
       ELSE LET tE == LowPressureStep(args, loc, loc.tE1)
            IN  IF loc.tE1 = 0
                THEN Raise("ZeroDivisionError", "error")
                ELSE /\ loc' = Assign(Assign(Assign(loc, "tE", tE),
                                             "error", RelativeError(loc.tE1, tE)),
                                      "tE1", tE)
                     /\ UNCHANGED <<call, pc, args, ret, stdout>>

\* Lines 90-97, once the loop has ended: the thin-wall check only warns.
LowPressureFinish ==
    /\ call = "vertical_vessels_weight" /\ pc = "thickness"
    /\ ThicknessProcedure(args.lowest_pressure) = "low"
    /\ ~NotConverged(loc.error)
    /\ LET check == MulDiv(loc.tE, 10^6, ToInch(args.diameter))
           tEC == CorrectionThickness(args)
           t == IF tEC > 0 THEN tEC + loc.tE + Inch \div 8 ELSE loc.tE + Inch \div 8
       IN  /\ loc' = Assign(Assign(Assign(loc, "check", check), "tEC", tEC),
                            "t_total", t)
           /\ stdout' = IF check >= 50000 THEN Append(stdout, ThinWallWarning)
                        ELSE stdout
    /\ Goto("minimum")
    /\ UNCHANGED ret

\* Lines 100-101, reached from either wall-thickness procedure, or straight
\* from line 77 when neither branch of the conditional is taken.
EnforceMinimum ==
    /\ call = "vertical_vessels_weight"
    /\ \/ pc = "minimum"
       \/ pc = "thickness" /\ ThicknessProcedure(args.lowest_pressure) = "none"
    /\ IF ~IsBound(loc, "t_total")
       THEN Raise("UnboundLocalError", "t_total")
       ELSE /\ loc' = Assign(loc, "t_total", MinimumThickness(loc.t_total))
            /\ Goto("weight")
            /\ UNCHANGED <<ret, stdout>>

\* Lines 104-108.
ComputeWeight ==
    /\ call = "vertical_vessels_weight" /\ pc = "weight"
    /\ Return(WeightOf(args, loc.t_total))

VesselNext ==
    \/ SelectDesignPressure
    \/ ComputeDesignTemp
    \/ SelectModulus
    \/ SelectAllowableStress
    \/ InitialGuess
    \/ HighPressureIterate
    \/ HighPressureFinish
    \/ LowPressureIterate
    \/ LowPressureFinish
    \/ EnforceMinimum
    \/ ComputeWeight

VesselInit ==
    /\ call = "vertical_vessels_weight"
    /\ pc = "design_pressure"
    /\ args \in VesselArgs
    /\ loc = NoLocals
    /\ ret = NoResult
    /\ stdout = <<>>

(***************************************************************************)
(* src/Heat-Exchanger/shellandtubeHE.py                                    *)
(***************************************************************************)

\* The largest area, in steps of AreaStep, a tube count is estimated for.
MaxAreaSteps == 30

\* 0.25 m2, in mm2.
AreaStep == 25 * 10^4

\* estimate_tube_number: heat_transfer_area in mm2 (10^-6 m2),
\* tube_outer_diameter and length in mm, n and min_tubes counts.
TubeArgs ==
    [heat_transfer_area : {i * AreaStep : i \in 0..MaxAreaSteps},
     tube_outer_diameter : {19, 25},
     length : {2000, 4000},
     n : {0, 1, 5, 10, 20, 40},
     min_tubes : {1, 2, 5, 20, 30}]

\* math.pi * tube_outer_diameter, in 10^-6 m.
TubeSurfacePerMeter(a) == MulDiv(a.tube_outer_diameter * 1000, Pi, 10^8)

\* tube_surface_area_per_meter * length, in mm2.
TubeSurface(a) == MulDiv(TubeSurfacePerMeter(a), a.length, 1000)

\* math.ceil(x / y) for x >= 0, y > 0.
Ceil(x, y) == (x + y - 1) \div y

\* The count raised to min_tubes from 1 on.
AdjustedFromOne(total, min_tubes) ==
    IF total >= 1 /\ total < min_tubes THEN min_tubes ELSE total

\* Lines 37-38: the count raised to min_tubes.
AdjustedCount(total, min_tubes) ==
    IF total > 1 /\ total < min_tubes THEN min_tubes ELSE total

\* The sentinel 0 from the maximum n on.
LimitedBelow(total, n) == IF total >= n THEN 0 ELSE total

\* Lines 39-42: the sentinel 0 above the maximum n.
LimitedCount(total, n) == IF total > n THEN 0 ELSE total

\* Lines 30-34.
ComputeTubeCount ==
    /\ call = "estimate_tube_number" /\ pc = "count"
    /\ loc' = Assign(Assign(Assign(loc,
                  "tube_surface_area_per_meter", TubeSurfacePerMeter(args)),
                  "tube_surface_area", TubeSurface(args)),
                  "total", Ceil(args.heat_transfer_area, TubeSurface(args)))
    /\ Goto("adjust")
    /\ UNCHANGED <<ret, stdout>>

\* Lines 37-38.
AdjustTubeCount ==
    /\ call = "estimate_tube_number" /\ pc = "adjust"
    /\ loc' = Assign(loc, "total", AdjustedCount(loc.total, args.min_tubes))
    /\ Goto("limit")
    /\ UNCHANGED <<ret, stdout>>

\* Lines 39-42.
ReturnTubeCount ==
    /\ call = "estimate_tube_number" /\ pc = "limit"
    /\ Return(LimitedCount(loc.total, args.n))

TubeInit ==
    /\ call = "estimate_tube_number"
    /\ pc = "count"
    /\ args \in TubeArgs
    /\ loc = NoLocals
    /\ ret = NoResult
    /\ stdout = <<>>

\* The widest shell, in steps of 50 mm, baffles are spaced for.
MaxShellSteps == 60

\* calculate_baffle_spacing: shell_diameter in mm, baffle_cut_percentage in
\* percent; baffle_spacing in 10^-6 m.
BaffleArgs ==
    [shell_diameter : {i * 50 : i \in 0..MaxShellSteps} \cup {-1000},
     baffle_cut_percentage : {0, 20, 25, 45, 100}]

\* x / y rounded down.
RoundDown(x, y) == x \div y

\* round(x / y) for y > 0: Python's round, to the nearest integer and on a
\* tie to the even one.
Round(x, y) ==
    LET q == x \div y
        r == x % y
    IN  IF 2 * r < y THEN q
        ELSE IF 2 * r > y THEN q + 1
        ELSE IF q % 2 = 0 THEN q ELSE q + 1

\* Line 57: max(0, round(shell_diameter / 0.9))
BaffleCount(shell_diameter) == Max(0, Round(shell_diameter, 900))

\* Lines 60-63.
BaffleSpacing(a, num_baffles) ==
    IF num_baffles > 0
    THEN MulDiv(a.shell_diameter * 1000, 100,
                100 * num_baffles + a.baffle_cut_percentage)
    ELSE 0

\* Lines 57-65.
CalculateBaffleSpacing ==
    /\ call = "calculate_baffle_spacing" /\ pc = "baffles"
    /\ LET num_baffles == BaffleCount(args.shell_diameter)
           baffle_spacing == BaffleSpacing(args, num_baffles)
       IN  /\ loc' = Assign(Assign(loc, "num_baffles", num_baffles),
                            "baffle_spacing", baffle_spacing)
           /\ ret' = Returned(<<num_baffles, baffle_spacing>>)
    /\ pc' = "done"
    /\ UNCHANGED <<call, args, stdout>>

BaffleInit ==
    /\ call = "calculate_baffle_spacing"
    /\ pc = "baffles"
    /\ args \in BaffleArgs
    /\ loc = NoLocals
    /\ ret = NoResult
    /\ stdout = <<>>

\* calculate_shell_diameter: num_tubes a count, tube_outer_diameter in mm,
\* min_shell_diameter and every diameter computed in 10^-4 m, pitch in
\* 10^-6 m, pitch_factor in 0.01.
ShellArgs ==
    [num_tubes : {0, 1, 20, 100, 500},
     tube_outer_diameter : {19, 25},
     pitch_type : {"t", "s", "T", "square", ""},
     min_shell_diameter : {1500, 3000}]

\* The pitch factor with square as the default of every other pitch type.
PitchFactorOrSquare(pitch_type) == IF pitch_type = "t" THEN 110 ELSE 125

\* Lines 84-89: 0 stands for the else branch, which raises ValueError.
PitchFactor(pitch_type) ==
    IF pitch_type = "t" THEN 110
    ELSE IF pitch_type = "s" THEN 125
    ELSE 0

\* The largest r with r*r <= x, found bit by bit from 2^15 down.
RECURSIVE SqrtBits(_, _, _)
SqrtBits(x, r, bit) ==
    IF bit = 0 THEN r
    ELSE IF r + bit <= 46340 /\ (r + bit) * (r + bit) <= x
         THEN SqrtBits(x, r + bit, bit \div 2)
         ELSE SqrtBits(x, r, bit \div 2)

\* math.sqrt(x), floored.
Sqrt(x) == SqrtBits(x, 0, 2^15)

\* Lines 92-101.
ShellDiameterOf(a, pitch_factor) ==
    LET pitch == a.tube_outer_diameter * 10 * pitch_factor
        bundle2 == MulDiv(a.num_tubes * MulDiv(pitch, pitch, 10^4), 10^8, Pi)
        tube_bundle_diameter == Sqrt(bundle2)
        shell_diameter == MulDiv(tube_bundle_diameter, 13, 10)
    IN  Max(shell_diameter, a.min_shell_diameter)

\* Lines 84-89.
SetPitchFactor ==
    /\ call = "calculate_shell_diameter" /\ pc = "pitch_factor"
    /\ IF PitchFactor(args.pitch_type) = 0
       THEN Raise("ValueError",
                  "Invalid pitch type. Use 't' for triangular or 's' for square.")
       ELSE /\ loc' = Assign(loc, "pitch_factor", PitchFactor(args.pitch_type))
            /\ Goto("shell_diameter")
            /\ UNCHANGED <<ret, stdout>>

\* Lines 92-103.
ComputeShellDiameter ==
    /\ call = "calculate_shell_diameter" /\ pc = "shell_diameter"
    /\ Return(ShellDiameterOf(args, loc.pitch_factor))

ShellInit ==
    /\ call = "calculate_shell_diameter"
    /\ pc = "pitch_factor"
    /\ args \in ShellArgs
    /\ loc = NoLocals
    /\ ret = NoResult
    /\ stdout = <<>>

\* calculate_shelltubeexchanger_weight: every length in 0.01 mm, num_tubes a
\* count, densities in kg/m3; areas in 0.01 mm2, volumes in mm3, weights in g.
WeightArgs ==
    [shell_diameter : {30000, 60000},
     tube_length : {200000, 300000},
     tube_outer_diameter : {1905, 2500},
     num_tubes : {20, 100},
     baffle_spacing : {-25000, 0, 25000, 70000, 200000, 400000},
     shell_thickness : {1270},
     tube_thickness : {211},
     baffle_thickness : {635},
     shell_steel_density : {7850, 8000},
     tube_steel_density : {7850}]

\* x**2 for a length x, in 0.01 mm2.
Square(x) == MulDiv(x, x, 100)

\* math.pi * dsq / 4 * tube_length for dsq in 0.01 mm2: a volume in mm3.
CylinderVolume(dsq, tube_length) ==
    MulDiv(MulDiv(dsq, Pi, 4 * 10^8), tube_length, 10^4)

\* Lines 126-127.
ShellVolume(a) ==
    LET shell_inner_diameter == a.shell_diameter - 2 * a.shell_thickness
    IN  CylinderVolume(Square(a.shell_diameter) - Square(shell_inner_diameter),
                       a.tube_length)

\* Lines 130-131.
TubeVolume(a) ==
    LET tube_inner_diameter == a.tube_outer_diameter - 2 * a.tube_thickness
    IN  CylinderVolume(a.num_tubes * (Square(a.tube_outer_diameter)
                                        - Square(tube_inner_diameter)),
                       a.tube_length)

\* volume * density, in g.
Mass(volume, density) == MulDiv(volume, density, 10^6)

\* Lines 134-144: the weight of the baffles, 0 without any.
BaffleWeight(a) ==
    IF a.baffle_spacing > 0 /\ a.baffle_spacing < a.tube_length
    THEN LET shell_inner_diameter == a.shell_diameter - 2 * a.shell_thickness
             baffle_count == a.tube_length \div a.baffle_spacing
             baffle_area == MulDiv(Square(shell_inner_diameter), Pi, 4 * 10^8)
             baffle_volume == MulDiv(baffle_area, a.baffle_thickness * baffle_count, 10^4)
         IN  Mass(baffle_volume, a.shell_steel_density)
    ELSE 0

\* Line 147.
ShellWeight(shell_volume, density, baffle_weight) ==
    Mass(shell_volume, density) + baffle_weight

\* The total with the baffles counted once, inside shell_weight.
TotalCountedOnce(shell_weight, tube_weight, baffle_weight) ==
    shell_weight + tube_weight

\* Line 151.
TotalWeight(shell_weight, tube_weight, baffle_weight) ==
    shell_weight + tube_weight + baffle_weight

\* Lines 126-131.
ComputeVolumes ==
    /\ call = "calculate_shelltubeexchanger_weight" /\ pc = "volumes"
    /\ loc' = Assign(Assign(loc, "shell_volume", ShellVolume(args)),
                     "tube_volume", TubeVolume(args))
    /\ Goto("baffles")
    /\ UNCHANGED <<ret, stdout>>

\* Lines 134-144.
ComputeBaffleWeight ==
    /\ call = "calculate_shelltubeexchanger_weight" /\ pc = "baffles"
    /\ loc' = Assign(loc, "baffle_weight", BaffleWeight(args))
    /\ Goto("weights")
    /\ UNCHANGED <<ret, stdout>>

\* Lines 147-153.
ComputeWeights ==
    /\ call = "calculate_shelltubeexchanger_weight" /\ pc = "weights"
    /\ LET shell_weight == ShellWeight(loc.shell_volume, args.shell_steel_density,
                                       loc.baffle_weight)
           tube_weight == Mass(loc.tube_volume, args.tube_steel_density)
           total_weight == TotalWeight(shell_weight, tube_weight, loc.baffle_weight)
       IN  /\ loc' = Assign(Assign(Assign(loc, "shell_weight", shell_weight),
                                   "tube_weight", tube_weight),
                            "total_weight", total_weight)
           /\ ret' = Returned(<<total_weight, shell_weight, tube_weight>>)
    /\ pc' = "done"
    /\ UNCHANGED <<call, args, stdout>>

WeightInit ==
    /\ call = "calculate_shelltubeexchanger_weight"
    /\ pc = "volumes"
    /\ args \in WeightArgs
    /\ loc = NoLocals
    /\ ret = NoResult
    /\ stdout = <<>>

HeatExchangerNext ==
    \/ ComputeTubeCount
    \/ AdjustTubeCount
    \/ ReturnTubeCount
    \/ CalculateBaffleSpacing
    \/ SetPitchFactor
    \/ ComputeShellDiameter
    \/ ComputeVolumes
    \/ ComputeBaffleWeight
    \/ ComputeWeights

(***************************************************************************)
(* src/Gas-Liquid-Separators/gasliquidsep.py                               *)
(***************************************************************************)

\* gas_liquid_separator_sizing: rho_vapor and rho_liquid in 0.01 kg/m3,
\* gas_flowrate and liquid_flowrate in 10^-4 m3/s, viscosity_gas in
\* 10^-8 Pa.s, h_d_ratio a number, D_sphere in 10^-6 m.  D_stern is held in
\* 10^-6, every velocity, diameter, length, volume and time in 10^-8.
SeparatorArgs ==
    [rho_vapor : {100, 120, 500},
     rho_liquid : {80000, 100000},
     gas_flowrate : {500, 1000, 2000},
     liquid_flowrate : {10, 50},
     viscosity_gas : {1000, 1800},
     h_d_ratio : {3},
     D_sphere : {100}]
    \cup
    [rho_vapor : {100000},
     rho_liquid : {100000},
     gas_flowrate : {500, 1000, 2000},
     liquid_flowrate : {10, 50},
     viscosity_gas : {1000, 1800},
     h_d_ratio : {3},
     D_sphere : {100}]

\* Line 56: g = 9.81, in 0.01 m/s2.
g == 981

\* Line 59: D_sphere * (rho_vapor * (rho_liquid - rho_vapor) * g
\*                       / viscosity_gas**2)**(1/3)
DStern(a) ==
    IF a.rho_liquid = a.rho_vapor THEN 0
    ELSE LET third == (FxLn(a.rho_vapor, 100)
                         + FxLn(a.rho_liquid - a.rho_vapor, 100)
                         + FxLn(g, 100)) \div 3
                      - 2 * (FxLn(a.viscosity_gas, 10^8) \div 3)
         IN  FxExp(third, a.D_sphere)

\* Line 60: (18 / D_stern**2 + 0.591 / D_stern**0.5)**-1
UtStern(D_stern) ==
    LET square == MulDiv(D_stern, D_stern, 10^6)
        root == FxPow(D_stern, 10^6, 1, 2, 10^6)
        sum == MulDiv(18 * 10^6, 10^7, square) + MulDiv(591 * 10^3, 10^7, root)
    IN  MulDiv(10^8, 10^7, sum)

\* Line 61: u_t_stern * (rho_vapor**2 / (viscosity_gas
\*                        * (rho_liquid - rho_vapor) * g))**(-1/3)
TerminalVelocity(a, u_t_stern) ==
    LET lnY == 2 * FxLn(a.rho_vapor, 100)
                 - FxLn(a.rho_liquid - a.rho_vapor, 100) - FxLn(g, 100)
                 - FxLn(a.viscosity_gas, 10^8)
    IN  MulDiv(u_t_stern, FxExp((-lnY) \div 3, Fine), Fine)

\* Line 64: (4 * gas_flowrate / (math.pi * u_t))**(1/2)
VesselDiameter(gas_flowrate, u_t) ==
    FxPow(MulDiv(4 * gas_flowrate * 10^4, 10^8, MulDiv(Pi, u_t, 10^8)),
          10^8, 1, 2, 10^8)

\* The gas velocity over a square of side D_vessel, without pi / 4.
SquareSectionVelocity(gas_flowrate, D_vessel) ==
    MulDiv(gas_flowrate * 10^4, 10^8, MulDiv(D_vessel, D_vessel, 10^8))

\* Line 67: 4 * gas_flowrate / (math.pi * D_vessel**2)
GasVelocity(gas_flowrate, D_vessel) ==
    MulDiv(4 * gas_flowrate * 10^4, 10^8,
           MulDiv(Pi, MulDiv(D_vessel, D_vessel, 10^8), 10^8))

\* Line 73: math.pi / 4 * D_vessel**2 * D_length
VesselVolume(D_vessel, D_length) ==
    MulDiv(MulDiv(Pi \div 4, MulDiv(D_vessel, D_vessel, 10^8), 10^8),
           D_length, 10^8)

\* Line 76: (math.pi * (0.1 * D_length) * D_vessel**2)
\*          / (4 * liquid_flowrate) / 3600
HoldUpTime(D_vessel, D_length, liquid_flowrate) ==
    MulDiv(MulDiv(MulDiv(Pi, D_length \div 10, 10^8),
                  MulDiv(D_vessel, D_vessel, 10^8), 10^8),
           10^4, 4 * liquid_flowrate * 3600)

\* Lines 56-61.
ComputeTerminalVelocity ==
    /\ call = "gas_liquid_separator_sizing" /\ pc = "terminal_velocity"
    /\ LET D_stern == DStern(args)
       IN  IF D_stern = 0
           THEN /\ loc' = Assign(Assign(loc, "g", g), "D_stern", D_stern)
                /\ ret' = Raised("ZeroDivisionError", "float division by zero")
                /\ pc' = "raised"
                /\ UNCHANGED <<call, args, stdout>>
           ELSE /\ loc' = Assign(Assign(Assign(Assign(loc, "g", g),
                              "D_stern", D_stern),
                              "u_t_stern", UtStern(D_stern)),
                              "u_t", TerminalVelocity(args, UtStern(D_stern)))
                /\ Goto("D_vessel")
                /\ UNCHANGED <<ret, stdout>>

\* Line 64.
ComputeVesselDiameter ==
    /\ call = "gas_liquid_separator_sizing" /\ pc = "D_vessel"
    /\ loc' = Assign(loc, "D_vessel", VesselDiameter(args.gas_flowrate, loc.u_t))
    /\ Goto("gas_velocity")
    /\ UNCHANGED <<ret, stdout>>

\* Line 67.
ComputeGasVelocity ==
    /\ call = "gas_liquid_separator_sizing" /\ pc = "gas_velocity"
    /\ loc' = Assign(loc, "gas_velocity",
                     GasVelocity(args.gas_flowrate, loc.D_vessel))
    /\ Goto("volume")
    /\ UNCHANGED <<ret, stdout>>

\* Lines 70-78.
ComputeVolumeAndHoldUp ==
    /\ call = "gas_liquid_separator_sizing" /\ pc = "volume"
    /\ LET D_length == args.h_d_ratio * loc.D_vessel
           D_volume == VesselVolume(loc.D_vessel, D_length)
           hold_up_time == HoldUpTime(loc.D_vessel, D_length, args.liquid_flowrate)
       IN  /\ loc' = Assign(Assign(Assign(loc, "D_length", D_length),
                                   "D_volume", D_volume),
                            "hold_up_time", hold_up_time)
           /\ ret' = Returned(<<loc.D_vessel, D_volume, hold_up_time,
                                loc.gas_velocity>>)
    /\ pc' = "done"
    /\ UNCHANGED <<call, args, stdout>>

SeparatorNext ==
    \/ ComputeTerminalVelocity
    \/ ComputeVesselDiameter
    \/ ComputeGasVelocity
    \/ ComputeVolumeAndHoldUp

SeparatorInit ==
    /\ call = "gas_liquid_separator_sizing"
    /\ pc = "terminal_velocity"
    /\ args \in SeparatorArgs
    /\ loc = NoLocals
    /\ ret = NoResult
    /\ stdout = <<>>

Init == VesselInit \/ TubeInit \/ BaffleInit \/ ShellInit \/ WeightInit \/ SeparatorInit

Next == VesselNext \/ HeatExchangerNext \/ SeparatorNext

Spec == Init /\ [][Next]_vars

\* Every enabled step is eventually taken: a call that is running keeps
\* running, the interpreter never stalls between two statements.
FairSpec == Spec /\ WF_vars(Next)

(***************************************************************************)
(* Properties                                                              *)
(***************************************************************************)

InVessel == call = "vertical_vessels_weight"

\* The design temperature lies above every allowable-stress band.
TooHot == IsBound(loc, "design_temp") /\ loc.design_temp > 90000

\* C1: whenever the design temperature is above 900 F the call of
\* vertical_vessels_weight ends in an error and never returns a weight, in
\* the branch lowest_pressure >= 101 and in the branch lowest_pressure < 101.
C1_TooHotNeverReturns ==
    (InVessel /\ TooHot) => (ret.kind # "value" /\ pc # "done")

\* C2: every call of vertical_vessels_weight terminates: each fixed-point loop
\* converges or stops with an error, none runs forever.
C2_VesselTerminates == InVessel => <>(pc \in {"done", "raised"})

\* The thickness a wall-thickness procedure computed (line 84, lines 94-97),
\* from the values the procedure left bound.
ComputedThickness ==
    IF IsBound(loc, "tp") THEN (loc.tp + loc.tE + loc.tp) \div 2
    ELSE IF loc.tEC > 0 THEN loc.tEC + loc.tE + Inch \div 8
    ELSE loc.tE + Inch \div 8

\* C3: the thickness used in the weight formula is never below 0.25 in: a
\* computed thickness below 0.25 in is replaced by exactly 0.25 in, any other
\* is used unchanged.
C3_MinimumThickness ==
    (InVessel /\ pc \in {"weight", "done"}) =>
        /\ loc.t_total >= Inch \div 4
        /\ ComputedThickness < Inch \div 4 => loc.t_total = Inch \div 4
        /\ ComputedThickness >= Inch \div 4 => loc.t_total = ComputedThickness
        /\ pc = "done" => ret = Returned(WeightOf(args, loc.t_total))

C3_Witness ==
    /\ InVessel /\ pc = "done"
    /\ ComputedThickness < Inch \div 4
    /\ loc.t_total = Inch \div 4

\* A thickness above the minimum reached the weight formula unchanged.
C3_WitnessUnchanged ==
    /\ InVessel /\ pc = "done"
    /\ ComputedThickness > Inch \div 4
    /\ loc.t_total = ComputedThickness

InTubes == call = "estimate_tube_number"

\* ceil(heat_transfer_area / tube_surface_area): the least count of tubes
\* whose surface covers the area.
UnconstrainedCount ==
    CHOOSE c \in 0..(MaxAreaSteps + 2) * 3 :
        /\ c * loc.tube_surface_area >= args.heat_transfer_area
        /\ c > 0 => (c - 1) * loc.tube_surface_area < args.heat_transfer_area

\* C4: with c the unconstrained count, estimate_tube_number raises c to
\* min_tubes when 1 < c < min_tubes, never raises a count of 1 or of 0 (which
\* gives 0), returns the sentinel 0 when the count exceeds n, and otherwise
\* the possibly raised count.
C4_TubeCountRule ==
    (InTubes /\ pc = "done") =>
        LET c == UnconstrainedCount
            r == ret.value
            m == args.min_tubes
        IN  /\ ret.kind = "value"
            /\ args.heat_transfer_area = 0 => c = 0 /\ r = 0
            /\ (c = 1 /\ args.n >= 1) => r = 1
            /\ (c = 1 /\ args.n < 1) => r = 0
            /\ (1 < c /\ c < m /\ m <= args.n) => r = m
            /\ (1 < c /\ c < m /\ m > args.n) => r = 0
            /\ (1 < c /\ c >= m /\ c <= args.n) => r = c
            /\ (1 < c /\ c >= m /\ c > args.n) => r = 0

C4_Witness ==
    /\ InTubes /\ pc = "done"
    /\ 1 < UnconstrainedCount /\ UnconstrainedCount < args.min_tubes
    /\ ret.value = args.min_tubes

\* C5, as claimed: the sentinel 0 is returned when the unconstrained count
\* exceeds n, and with area > 0 every other case returns a positive count; an
\* unconstrained count between 1 and n never yields 0.
C5_SentinelOnlyAboveMaximum ==
    (InTubes /\ pc = "done") =>
        /\ UnconstrainedCount > args.n => ret.value = 0
        /\ (args.heat_transfer_area > 0 /\ UnconstrainedCount <= args.n)
               => ret.value > 0

\* C5, amended: the sentinel 0 is returned when the count after the raise to
\* min_tubes exceeds n, and with area > 0 every other case returns that
\* count, which is positive; an unconstrained count between 1 and n yields 0
\* exactly when it lies strictly between 1 and min_tubes and min_tubes > n.
C5_SentinelAfterAdjustment ==
    (InTubes /\ pc = "done") =>
        LET c == UnconstrainedCount
            raised == 1 < c /\ c < args.min_tubes
            count == IF raised THEN args.min_tubes ELSE c
        IN  /\ count > args.n => ret.value = 0
            /\ (args.heat_transfer_area > 0 /\ count <= args.n)
                   => ret.value = count /\ ret.value > 0
            /\ (1 <= c /\ c <= args.n)
                   => (ret.value = 0 <=> (raised /\ args.min_tubes > args.n))

C5_Witness ==
    /\ InTubes /\ pc = "done"
    /\ 1 < UnconstrainedCount /\ UnconstrainedCount <= args.n
    /\ UnconstrainedCount < args.min_tubes /\ args.min_tubes > args.n
    /\ ret.value = 0

InWeight == call = "calculate_shelltubeexchanger_weight"

\* floor(tube_length / baffle_spacing) for a positive spacing.
BafflesAlong(a) ==
    CHOOSE k \in 0..a.tube_length :
        /\ k * a.baffle_spacing <= a.tube_length
        /\ (k + 1) * a.baffle_spacing > a.tube_length

\* The weight of k full disks of the shell's inner diameter.
DiskWeight(a, k) ==
    LET inner == a.shell_diameter - 2 * a.shell_thickness
    IN  Mass(MulDiv(MulDiv(Square(inner), Pi, 4 * 10^8),
                    k * a.baffle_thickness, 10^4),
             a.shell_steel_density)

\* C6: the baffle weight is that of floor(tube_length / baffle_spacing) full
\* disks when 0 < baffle_spacing < tube_length and 0 otherwise; the returned
\* shell weight is annulus plus baffles, and the returned total is shell
\* weight + tube weight + baffle weight, so the baffles count twice.
C6_BafflesCountedTwice ==
    (InWeight /\ pc = "done") =>
        LET annulus == Mass(loc.shell_volume, args.shell_steel_density)
            tubes == Mass(loc.tube_volume, args.tube_steel_density)
            baffles == loc.baffle_weight
        IN  /\ (0 < args.baffle_spacing /\ args.baffle_spacing < args.tube_length)
                   => baffles = DiskWeight(args, BafflesAlong(args))
            /\ ~(0 < args.baffle_spacing /\ args.baffle_spacing < args.tube_length)
                   => baffles = 0
            /\ ret.value[2] = annulus + baffles
            /\ ret.value[3] = tubes
            /\ ret.value[1] = ret.value[2] + ret.value[3] + baffles
            /\ ret.value[1] = annulus + tubes + 2 * baffles

C6_Witness ==
    /\ InWeight /\ pc = "done"
    /\ loc.baffle_weight > 0
    /\ BafflesAlong(args) > 1
    /\ ret.value[1] > ret.value[2] + ret.value[3]

InShell == call = "calculate_shell_diameter"

\* C7: any pitch type other than 't' or 's' fails with ValueError and returns
\* no diameter, whatever the other arguments; 't' and 's' never raise and use
\* the pitch factors 1.1 and 1.25.
C7_PitchType ==
    (InShell /\ pc # "pitch_factor") =>
        /\ args.pitch_type \notin {"t", "s"}
               => /\ pc = "raised"
                  /\ ret.kind = "exception" /\ ret.type = "ValueError"
                  /\ ~IsBound(loc, "pitch_factor")
        /\ args.pitch_type = "t"
               => ret.kind # "exception" /\ loc.pitch_factor = 110
        /\ args.pitch_type = "s"
               => ret.kind # "exception" /\ loc.pitch_factor = 125

C7_Witness ==
    /\ InShell /\ pc = "raised"
    /\ args.pitch_type = "square"
    /\ ret.type = "ValueError"

\* A square pitch went through with its own factor.
C7_WitnessSquare ==
    /\ InShell /\ pc = "done"
    /\ args.pitch_type = "s" /\ loc.pitch_factor = 125
    /\ ret.value > args.min_shell_diameter

InBaffles == call = "calculate_baffle_spacing"

\* C8: for a shell diameter >= 0 and a baffle cut in 0..100 the count is the
\* integer nearest to shell_diameter / 0.9 (the even one on a tie), never
\* below 0; the spacing is shell_diameter / (count + cut/100) when the count
\* is positive and exactly 0 when it is 0; a diameter of 0 gives (0, 0).
C8_BaffleSpacing ==
    (InBaffles /\ pc = "done" /\ args.shell_diameter >= 0
       /\ args.baffle_cut_percentage \in 0..100) =>
        LET D == args.shell_diameter
            count == ret.value[1]
            spacing == ret.value[2]
            parts == 100 * count + args.baffle_cut_percentage
        IN  /\ count \in Nat
            /\ 2 * Abs(900 * count - D) <= 900
            /\ 2 * Abs(900 * count - D) = 900 => count % 2 = 0
            /\ count > 0 => /\ spacing * parts <= D * 10^5
                            /\ (spacing + 1) * parts > D * 10^5
            /\ count = 0 => spacing = 0
            /\ D = 0 => ret.value = <<0, 0>>

C8_Witness ==
    /\ InBaffles /\ pc = "done"
    /\ args.shell_diameter = 1350 /\ args.baffle_cut_percentage = 25
    /\ ret.value[1] = 2
    /\ ret.value[2] = 600000

\* The diameter 0 gave no baffle and no spacing.
C8_WitnessZero ==
    /\ InBaffles /\ pc = "done"
    /\ args.shell_diameter = 0 /\ args.baffle_cut_percentage = 25
    /\ ret.value = <<0, 0>>

InSeparator == call = "gas_liquid_separator_sizing"

RoundingTolerance(u_t) == u_t \div 10^6 + 1

C10_OneRegimeOneProcedure ==
    InVessel =>
        LET p == args.lowest_pressure IN
        /\ pc # "design_pressure" =>
               /\ IsBound(loc, "design_pressure")
               /\ p = 345 => loc.design_pressure = 10000
               /\ p = 68950 => /\ loc.design_pressure = PressureCorrelation(p)
                               /\ loc.design_pressure # MulDiv(ToPsig(p), 11, 10)
        /\ pc \in {"minimum", "weight", "done"} =>
               /\ IsBound(loc, "t_total")
               /\ IsBound(loc, "tp") # IsBound(loc, "tEC")
               /\ p = 1010 => IsBound(loc, "tp")
               /\ IsBound(loc, "tp") = (p >= 1010)
        /\ pc = "raised" => ret.what \notin {"t_total", "design_pressure"}

C10_Witness ==
    /\ InVessel /\ pc = "done"
    /\ args.lowest_pressure = 1010
    /\ IsBound(loc, "tp") /\ ~IsBound(loc, "tEC")

\* The pressure 6895 went through the log-quadratic regime.
C10_WitnessCorrelation ==
    /\ InVessel /\ pc = "done"
    /\ args.lowest_pressure = 68950
    /\ loc.design_pressure = PressureCorrelation(68950)

====
